---- MODULE Spec2Model ----
(***************************************************************************)
(* T-Conf: the disk topology builder (core_disk.Transfinite_Disk) and the  *)
(* sphere wedge builder (mesh.create_wedge_volumes, mesh.revolve_surface,  *)
(* mesh._apply_transfinite_sweep), together with the part of the gmsh      *)
(* geometry kernel they drive: tag allocation per entity kind, the model   *)
(* entities, and the ordered log of kernel calls.                          *)
(*                                                                         *)
(* Lengths (a, rInner, rOuter, h_band) are integers in one common unit:    *)
(* the code only adds, subtracts and compares them.  An angle theta =      *)
(* 2*pi*k/n is kept as the pair (k, n).  Python's 0-based x[k] is x[k+1].  *)
(***************************************************************************)
EXTENDS Integers, Sequences, FiniteSets, TLC

\* ------------------------------------------------------------ bounds
MaxR == 4
MaxSectors == 5
MaxNewSurfs == 2
MaxCorners == 5

\* ------------------------------------------------- program constants
FixedSectors == 4
MinDiv == 4
CenterTag == 1
RangeStart == 2
RangeStop == 21
None == 0
DefaultBump == 0

HBands == {1, 2}

VARIABLES
    prog,     \* which entry point runs: "disk" or "wedge"
    pc,       \* position in the running function
    raised,   \* the exception that ended the run, "none" while running
    args,     \* the arguments of the entry point
    pts,      \* kernel: points by tag
    curves,   \* kernel: curves (lines and arcs share one tag sequence) by tag
    loops,    \* kernel: curve loops by tag, each a sequence of signed curve tags
    surfs,    \* kernel: surfaces by tag, each the tag of its curve loop
    vols,     \* kernel: volumes by tag, each the surface it was swept from
    calls,    \* kernel: every call received, in order
    swept,    \* kernel: entities made by revolve, with the index of that call
    topo,     \* kernel: boundary topology revolve gives the surfaces it makes
    dl,       \* locals of Transfinite_Disk
    wl        \* locals of create_wedge_volumes / revolve_surface / _apply_transfinite_sweep

vars == <<prog, pc, raised, args, pts, curves, loops, surfs, vols, calls, swept, topo, dl, wl>>

kernelGeo == <<pts, curves, loops, surfs, vols, swept>>

\* ------------------------------------------------------------ helpers
Abs(x) == IF x < 0 THEN -x ELSE x

Max(x, y) == IF x >= y THEN x ELSE y

CeilDiv(x, y) == (x + y - 1) \div y

\* ceil((0.5 * pi) / h) for an integer h >= 1: 1.5708 / 1 -> 2, 1.5708 / h -> 1 for h >= 2
CeilHalfPiOver(h) == IF h = 1 THEN 2 ELSE 1

Range(s) == {s[k] : k \in 1..Len(s)}

\* list.index(x): the first position holding x (1-based), 0 when absent (ValueError)
Index(s, x) == IF x \in Range(s) THEN CHOOSE k \in 1..Len(s) : s[k] = x /\ \A j \in 1..(k-1) : s[j] # x ELSE 0

\* s[i:] + s[:i] with i the 0-based index, given here 1-based
Rotate(s, k) == SubSeq(s, k, Len(s)) \o SubSeq(s, 1, k - 1)

RECURSIVE Dedup(_)
Dedup(s) == IF s = <<>> THEN <<>> ELSE LET h == Dedup(SubSeq(s, 1, Len(s) - 1)) IN IF s[Len(s)] \in Range(h) THEN h ELSE Append(h, s[Len(s)])

RECURSIVE Flatten(_)
Flatten(ss) == IF ss = <<>> THEN <<>> ELSE ss[1] \o Flatten(Tail(ss))

\* one kernel call
Call(op, dim, tag, arr, list) == [op |-> op, dim |-> dim, tag |-> tag, arr |-> arr, list |-> list]

Line(p0, p1) == [type |-> "Line", ends |-> <<p0, p1>>, center |-> 0]

CircleArc(start, center, end) == [type |-> "Circle", ends |-> <<start, end>>, center |-> center]

\* the addLine / addCircleArc call that makes curve cv with tag t
CurveCall(t, cv) == IF cv.type = "Line" THEN Call("addLine", 1, t, "", cv.ends) ELSE Call("addCircleArc", 1, t, "", <<cv.ends[1], cv.center, cv.ends[2]>>)

\* the calls that append the curves cs after cbase existing curves
CurveCalls(cbase, cs) == [k \in 1..Len(cs) |-> CurveCall(cbase + k, cs[k])]

\* T_Conf.transfinite.set_transfinite: a structured-edge declaration per radial
\* and per circular curve, a structured-surface declaration per surface
set_transfinite(radial_curves, circular_curves, surfaces, n_div_radial, n_div_circular, bumpcoef) ==
    [k \in 1..Len(radial_curves) |-> Call("setTransfiniteCurve", 1, Abs(radial_curves[k]), "", <<n_div_radial, bumpcoef>>)]
    \o [k \in 1..Len(circular_curves) |-> Call("setTransfiniteCurve", 1, Abs(circular_curves[k]), "", <<n_div_circular, bumpcoef>>)]
    \o [k \in 1..Len(surfaces) |-> Call("setTransfiniteSurface", 2, surfaces[k][1], surfaces[k][2], <<>>)]

\* ================================================== Transfinite_Disk
NoDiskLocals == [n_div_radial |-> 0, n_div_angular |-> 0, p_center |-> 0, n_sectors |-> 0, i |-> 0,
                 sectors |-> <<>>, p |-> <<>>, curves_ib |-> <<>>, arc_interface |-> 0, surf_ib |-> 0,
                 curves_ob |-> <<>>, arc_outer |-> 0, surf_ob |-> 0,
                 inner_surfaces |-> <<>>, outer_surfaces |-> <<>>]

NoWedgeLocals == [stage |-> 0, surface_loop |-> 0, surface_type |-> "", apply_transfinite |-> FALSE,
                  out_plus |-> <<>>, out_minus |-> <<>>, vol_plus |-> 0, vol_minus |-> 0,
                  side |-> "", new_surfs |-> <<>>, j |-> 0, s_tag |-> 0, use_arr |-> "", corner_points |-> <<>>,
                  vol_i_plus |-> 0, vol_i_minus |-> 0, vol_o_plus |-> 0, vol_o_minus |-> 0,
                  vol_ib_plus |-> 0, vol_ib_minus |-> 0, vol_ob_plus |-> 0, vol_ob_minus |-> 0,
                  inner_vols |-> <<>>, outer_vols |-> <<>>]

DiskArgs == [a : 0..MaxR, rInner : 0..MaxR, rOuter : 0..MaxR, h_band : HBands, n_sectors : 1..MaxSectors]

InitDisk ==
    /\ prog = "disk"
    /\ pc = "start"
    /\ raised = "none"
    /\ args \in DiskArgs
    /\ pts = <<>> /\ curves = <<>> /\ loops = <<>> /\ surfs = <<>> /\ vols = <<>>
    /\ calls = <<>>
    /\ swept = {}
    /\ topo = <<>>
    /\ dl = NoDiskLocals
    /\ wl = NoWedgeLocals

meshSizeAt(r) == IF args.rInner - args.a <= r /\ r <= args.rInner + args.a THEN "h_band" ELSE "h_outer"

\* the parameter checks: the exception they raise, "none" when they pass
ParameterError(a, rInner, rOuter) ==
    IF rInner - a < 0 THEN "ValueError"
    ELSE IF rInner + a > rOuter THEN "ValueError"
    ELSE "none"

\* kernel start-up, the parameter checks, the division counts
ParameterChecksLate ==
    /\ prog = "disk" /\ pc = "start"
    /\ LET e == ParameterError(args.a, args.rInner, args.rOuter) IN
        /\ raised' = e
        /\ pc' = IF e = "none" THEN "center" ELSE "raised"
        /\ pts' = Append(pts, [r |-> 0, th |-> 0, den |-> 1, size |-> meshSizeAt(0)])
        /\ calls' = calls \o <<Call("initialize", 0, 0, "", <<>>), Call("addPoint", 0, 1, meshSizeAt(0), <<0, 0, 1>>)>>
        /\ dl' = [dl EXCEPT !.n_div_radial = Max(MinDiv, CeilDiv(2 * args.a, args.h_band)),
                            !.n_div_angular = Max(MinDiv, CeilHalfPiOver(args.h_band))]
    /\ UNCHANGED <<prog, args, curves, loops, surfs, vols, swept, topo, wl>>

ParameterChecks ==
    /\ prog = "disk" /\ pc = "start"
    /\ LET e == ParameterError(args.a, args.rInner, args.rOuter) IN
        /\ raised' = e
        /\ pc' = IF e = "none" THEN "center" ELSE "raised"
        /\ calls' = Append(calls, Call("initialize", 0, 0, "", <<>>))
        /\ dl' = IF e = "none"
                 THEN [dl EXCEPT !.n_div_radial = Max(MinDiv, CeilDiv(2 * args.a, args.h_band)),
                                 !.n_div_angular = Max(MinDiv, CeilHalfPiOver(args.h_band))]
                 ELSE dl
    /\ UNCHANGED <<prog, args, kernelGeo, topo, wl>>

\* the surface lists, the center point, the sector count the loop runs with
AddCenter ==
    /\ prog = "disk" /\ pc = "center"
    /\ LET t == Len(pts) + 1 IN
        /\ pts' = Append(pts, [r |-> 0, th |-> 0, den |-> 1, size |-> meshSizeAt(0)])
        /\ calls' = Append(calls, Call("addPoint", 0, t, meshSizeAt(0), <<0, 0, 1>>))
        /\ dl' = [dl EXCEPT !.p_center = t, !.n_sectors = FixedSectors, !.i = 0,
                            !.inner_surfaces = <<>>, !.outer_surfaces = <<>>]
    /\ pc' = "loop"
    /\ UNCHANGED <<prog, raised, args, curves, loops, surfs, vols, swept, topo, wl>>

\* the radii of the eight points of a sector, in the order the dict literal makes them
SectorRadii == <<args.rInner - args.a, args.rInner - args.a, args.rInner, args.rInner,
                 args.rInner + args.a, args.rInner + args.a, args.rOuter, args.rOuter>>

\* p: in0, in1, mid0, mid1, out0, out1, o20, o21 are p[1] .. p[8]
MakeSectorPoints ==
    /\ prog = "disk" /\ pc = "loop" /\ dl.i < dl.n_sectors
    /\ LET base == Len(pts)
           th(k) == IF k % 2 = 1 THEN dl.i ELSE dl.i + 1
           new == [k \in 1..8 |-> [r |-> SectorRadii[k], th |-> th(k), den |-> dl.n_sectors, size |-> meshSizeAt(SectorRadii[k])]]
       IN
        /\ pts' = pts \o new
        /\ calls' = calls \o [k \in 1..8 |-> Call("addPoint", 0, base + k, new[k].size, <<new[k].r, new[k].th, new[k].den>>)]
        /\ dl' = [dl EXCEPT !.p = [k \in 1..8 |-> base + k],
                            !.sectors = Append(@, [theta0 |-> dl.i, theta1 |-> dl.i + 1, den |-> dl.n_sectors, p |-> [k \in 1..8 |-> base + k]])]
    /\ pc' = "inner"
    /\ UNCHANGED <<prog, raised, args, curves, loops, surfs, vols, swept, topo, wl>>

\* inner band and inner bulk (rInner - a > 0), or the pie slice (rInner = a)
InnerPatches ==
    /\ prog = "disk" /\ pc = "inner"
    /\ LET c == Len(curves)
           l == Len(loops)
           s == Len(surfs)
           in0 == dl.p[1]
           in1 == dl.p[2]
           mid0 == dl.p[3]
           mid1 == dl.p[4]
       IN
        IF args.rInner - args.a > 0 THEN
            LET ib == <<Line(in0, mid0), CircleArc(mid0, dl.p_center, mid1), Line(mid1, in1), CircleArc(in1, dl.p_center, in0)>>
                curves_ib == <<c + 1, c + 2, c + 3, c + 4>>
                inner_arc == curves_ib[4]
                fan == <<Line(dl.p_center, in0), Line(in1, dl.p_center)>>
                loop == <<c + 5, -inner_arc, c + 6>>
            IN
            /\ curves' = curves \o ib \o fan
            /\ loops' = loops \o <<curves_ib, loop>>
            /\ surfs' = surfs \o <<l + 1, l + 2>>
            /\ calls' = calls \o CurveCalls(c, ib)
                              \o <<Call("addCurveLoop", 1, l + 1, "", curves_ib), Call("addPlaneSurface", 2, s + 1, "", <<l + 1>>)>>
                              \o CurveCalls(c + 4, fan)
                              \o <<Call("addCurveLoop", 1, l + 2, "", loop), Call("addPlaneSurface", 2, s + 2, "", <<l + 2>>)>>
            /\ dl' = [dl EXCEPT !.curves_ib = curves_ib, !.arc_interface = curves_ib[2], !.surf_ib = s + 1,
                                !.inner_surfaces = @ \o <<s + 1, s + 2>>]
        ELSE IF args.rInner = args.a THEN
            LET ib == <<Line(dl.p_center, mid0), CircleArc(mid0, dl.p_center, mid1), Line(mid1, dl.p_center)>>
                curves_ib == <<c + 1, c + 2, c + 3>>
            IN
            /\ curves' = curves \o ib
            /\ loops' = Append(loops, curves_ib)
            /\ surfs' = Append(surfs, l + 1)
            /\ calls' = calls \o CurveCalls(c, ib)
                              \o <<Call("addCurveLoop", 1, l + 1, "", curves_ib), Call("addPlaneSurface", 2, s + 1, "", <<l + 1>>)>>
            /\ dl' = [dl EXCEPT !.curves_ib = curves_ib, !.arc_interface = curves_ib[2], !.surf_ib = s + 1,
                                !.inner_surfaces = Append(@, s + 1)]
        ELSE UNCHANGED <<curves, loops, surfs, calls, dl>>
    /\ pc' = "outer_band"
    /\ UNCHANGED <<prog, raised, args, pts, vols, swept, topo, wl>>

\* the reference the outer-band loop makes to the interface arc
InterfaceRefNewArc(arc_interface, fresh) == fresh

InterfaceRef(arc_interface, fresh) == -arc_interface

\* outer band: two lines, the outer arc, and the interface arc reversed
OuterBand ==
    /\ prog = "disk" /\ pc = "outer_band"
    /\ LET c == Len(curves)
           l == Len(loops)
           s == Len(surfs)
           mid0 == dl.p[3]
           mid1 == dl.p[4]
           out0 == dl.p[5]
           out1 == dl.p[6]
           ob == <<Line(mid0, out0), CircleArc(out0, dl.p_center, out1), Line(out1, mid1)>>
           last == InterfaceRef(dl.arc_interface, c + 4)
           dup == IF Abs(last) > c + 3 THEN <<CircleArc(mid1, dl.p_center, mid0)>> ELSE <<>>
           curves_ob == <<c + 1, c + 2, c + 3, last>>
       IN
        /\ curves' = curves \o ob \o dup
        /\ loops' = Append(loops, curves_ob)
        /\ surfs' = Append(surfs, l + 1)
        /\ calls' = calls \o CurveCalls(c, ob) \o CurveCalls(c + 3, dup)
                          \o <<Call("addCurveLoop", 1, l + 1, "", curves_ob), Call("addPlaneSurface", 2, s + 1, "", <<l + 1>>)>>
        /\ dl' = [dl EXCEPT !.curves_ob = curves_ob, !.arc_outer = curves_ob[2], !.surf_ob = s + 1,
                            !.outer_surfaces = Append(@, s + 1)]
    /\ pc' = "outer_bulk"
    /\ UNCHANGED <<prog, raised, args, pts, vols, swept, topo, wl>>

\* whether the sector gets an outer-bulk patch
HasOuterBulkAlways(a, rInner, rOuter) == a + rInner <= rOuter

HasOuterBulk(a, rInner, rOuter) == a + rInner < rOuter

OuterBulk ==
    /\ prog = "disk" /\ pc = "outer_bulk"
    /\ LET c == Len(curves)
           l == Len(loops)
           s == Len(surfs)
           out0 == dl.p[5]
           out1 == dl.p[6]
           o20 == dl.p[7]
           o21 == dl.p[8]
           bulk == <<Line(out0, o20), CircleArc(o20, dl.p_center, o21), Line(o21, out1)>>
           loop_bulk == <<c + 1, c + 2, c + 3, -dl.arc_outer>>
       IN
        IF HasOuterBulk(args.a, args.rInner, args.rOuter) THEN
            /\ curves' = curves \o bulk
            /\ loops' = Append(loops, loop_bulk)
            /\ surfs' = Append(surfs, l + 1)
            /\ calls' = calls \o CurveCalls(c, bulk)
                              \o <<Call("addCurveLoop", 1, l + 1, "", loop_bulk), Call("addPlaneSurface", 2, s + 1, "", <<l + 1>>)>>
            /\ dl' = [dl EXCEPT !.outer_surfaces = Append(@, s + 1)]
        ELSE UNCHANGED <<curves, loops, surfs, calls, dl>>
    /\ pc' = "transfinite"
    /\ UNCHANGED <<prog, raised, args, pts, vols, swept, topo, wl>>

\* the argument lists are built first: curves_ib[3] of a 3-element list is an IndexError
SetTransfiniteSector ==
    /\ prog = "disk" /\ pc = "transfinite"
    /\ IF Len(dl.curves_ib) < 4 \/ Len(dl.curves_ob) < 4 THEN
            /\ raised' = "IndexError"
            /\ pc' = "raised"
            /\ UNCHANGED <<calls, dl>>
       ELSE
            /\ calls' = calls \o set_transfinite(<<dl.curves_ib[1], dl.curves_ib[3], dl.curves_ob[1], dl.curves_ob[3]>>,
                                                 <<dl.curves_ib[2], dl.curves_ib[4], dl.curves_ob[2], dl.curves_ob[4]>>,
                                                 <<<<dl.surf_ib, "Right">>, <<dl.surf_ob, "Left">>>>,
                                                 dl.n_div_radial, dl.n_div_angular, DefaultBump)
            /\ dl' = [dl EXCEPT !.i = @ + 1]
            /\ pc' = "loop"
            /\ UNCHANGED raised
    /\ UNCHANGED <<prog, args, kernelGeo, topo, wl>>

\* the two physical groups and their names
TagGroups ==
    /\ prog = "disk" /\ pc = "loop" /\ dl.i >= dl.n_sectors
    /\ calls' = calls \o <<Call("addPhysicalGroup", 2, 1, "", dl.inner_surfaces), Call("setPhysicalName", 2, 1, "InnerMaterial", <<>>),
                           Call("addPhysicalGroup", 2, 2, "", dl.outer_surfaces), Call("setPhysicalName", 2, 2, "OuterMaterial", <<>>)>>
    /\ pc' = "sync"
    /\ UNCHANGED <<prog, raised, args, kernelGeo, topo, dl, wl>>

FinalSync ==
    /\ prog = "disk" /\ pc = "sync"
    /\ calls' = Append(calls, Call("synchronize", 0, 0, "", <<>>))
    /\ pc' = "done"
    /\ UNCHANGED <<prog, raised, args, kernelGeo, topo, dl, wl>>

NextDisk ==
    \/ ParameterChecks
    \/ AddCenter
    \/ MakeSectorPoints
    \/ InnerPatches
    \/ OuterBand
    \/ OuterBulk
    \/ SetTransfiniteSector
    \/ TagGroups
    \/ FinalSync

SpecDisk == InitDisk /\ [][NextDisk]_vars

\* ============================================== create_wedge_volumes
\* The 2D cross-section the wedge builder is handed: the first sector of the
\* disk for a = 1, rInner = 2, rOuter = 4 (center, in0, in1, mid0, mid1, out0,
\* out1, o20, o21; inner band, inner bulk, outer band, outer bulk).
SectionPts ==
    <<[r |-> 0, th |-> 0, den |-> 1, size |-> "h_outer"],
      [r |-> 1, th |-> 0, den |-> 4, size |-> "h_band"], [r |-> 1, th |-> 1, den |-> 4, size |-> "h_band"],
      [r |-> 2, th |-> 0, den |-> 4, size |-> "h_band"], [r |-> 2, th |-> 1, den |-> 4, size |-> "h_band"],
      [r |-> 3, th |-> 0, den |-> 4, size |-> "h_band"], [r |-> 3, th |-> 1, den |-> 4, size |-> "h_band"],
      [r |-> 4, th |-> 0, den |-> 4, size |-> "h_outer"], [r |-> 4, th |-> 1, den |-> 4, size |-> "h_outer"]>>

SectionCurves ==
    <<Line(2, 4), CircleArc(4, 1, 5), Line(5, 3), CircleArc(3, 1, 2),
      Line(1, 2), Line(3, 1),
      Line(4, 6), CircleArc(6, 1, 7), Line(7, 5),
      Line(6, 8), CircleArc(8, 1, 9), Line(9, 7)>>

SectionLoops == << <<1, 2, 3, 4>>, <<5, -4, 6>>, <<7, 8, 9, -2>>, <<10, 11, 12, -8>> >>

SectionSurfs == <<1, 2, 3, 4>>

\* boundary of a swept surface with corners ps, in order: lines and arcs alternate
Polygon(ps) == [j \in 1..Len(ps) |-> [type |-> IF j % 2 = 1 THEN "Line" ELSE "Circle", ends |-> <<ps[j], ps[(j % Len(ps)) + 1]>>, center |-> 0]]

\* two corners joined by an arc and a curve of another type, and a closed curve with one end
Lens == <<[type |-> "Circle", ends |-> <<2, 3>>, center |-> 0], [type |-> "Ellipse", ends |-> <<3, 2>>, center |-> 0],
          [type |-> "Circle", ends |-> <<4>>, center |-> 0]>>

\* the boundaries the kernel may give a surface made by revolve
Shapes == {Polygon([j \in 1..k |-> j + 1]) : k \in 2..MaxCorners} \cup {Polygon(<<2, 3, 1>>), Lens}

\* the bounding boxes the kernel may report: on the symmetry plane in the
\* non-negative quadrant, off the plane, on the plane reaching negative x
BBoxes == {<<0, 0, 0, 1, 1, 0>>, <<0, 0, 0, 1, 1, 1>>, <<-1, 0, 0, 1, 1, 0>>}

Topologies == [shapes : UNION {[1..k -> Shapes] : k \in 0..MaxNewSurfs}, bbox : BBoxes]

WedgeArgs == [inner_surf : {1}, outer_surf : {3}, inner_bulk_surf : {None, 2}, outer_bulk_surf : {None, 4},
              angle_sweep : {1}, n_div_radial : {4}, n_div_curved : {6}, bumpcoef : {1}]

InitWedge ==
    /\ prog = "wedge"
    /\ pc = "stage"
    /\ raised = "none"
    /\ args \in WedgeArgs
    /\ pts = SectionPts /\ curves = SectionCurves /\ loops = SectionLoops /\ surfs = SectionSurfs
    /\ vols = <<>>
    /\ calls = <<>>
    /\ swept = {}
    /\ topo \in Topologies
    /\ dl = NoDiskLocals
    /\ wl = [NoWedgeLocals EXCEPT !.stage = 1]

\* the patch, type tag and propagation flag of the four revolve_surface calls
StagePatch(stage) ==
    CASE stage = 1 -> args.inner_surf
      [] stage = 2 -> args.outer_surf
      [] stage = 3 -> args.inner_bulk_surf
      [] OTHER -> args.outer_bulk_surf

StageType(stage) == IF stage \in {1, 3} THEN "inner" ELSE "outer"

ApplyTransfiniteAlways(stage) == TRUE

ApplyTransfiniteArg(stage) == stage \in {1, 2}

\* gmsh.model.geo.revolve of surface src by angle: a volume and, per shape of
\* topo, a surface with its loop and curves; out is the returned (dim, tag)
\* list, state the kernel entities after the call
Revolve(src, angle) ==
    LET c == Len(curves)
        l == Len(loops)
        s == Len(surfs)
        v == Len(vols)
        n == Len(topo.shapes)
        off(j) == c + Len(Flatten(SubSeq(topo.shapes, 1, j - 1)))
        newloops == [j \in 1..n |-> [k \in 1..Len(topo.shapes[j]) |-> off(j) + k]]
        at == Len(calls) + 1
        made2 == [j \in 1..n |-> <<2, s + j>>]
    IN [out |-> IF n = 0 THEN <<<<3, v + 1>>>> ELSE <<made2[1], <<3, v + 1>>>> \o Tail(made2),
        vol |-> v + 1,
        curves |-> curves \o Flatten(topo.shapes),
        loops |-> loops \o newloops,
        surfs |-> surfs \o [j \in 1..n |-> l + j],
        vols |-> Append(vols, src),
        call |-> Call("revolve", 2, src, "", <<angle>>),
        swept |-> swept \cup {[dim |-> 3, tag |-> v + 1, call |-> at]}
                        \cup {[dim |-> 2, tag |-> s + j, call |-> at] : j \in 1..n}
                        \cup {[dim |-> 1, tag |-> t, call |-> at] : t \in (c + 1)..(c + Len(Flatten(topo.shapes)))}]

\* next(v for (dim, v) in out if dim == 3)
FirstVolume(out) == out[CHOOSE k \in 1..Len(out) : out[k][1] = 3 /\ \A m \in 1..(k - 1) : out[m][1] # 3][2]

\* the angle of the second sweep
SameAngle(angle_sweep) == angle_sweep

NegativeAngle(angle_sweep) == -angle_sweep

\* a revolve_surface call of create_wedge_volumes, up to its positive sweep
RevolvePositive ==
    /\ prog = "wedge" /\ pc = "stage" /\ StagePatch(wl.stage) # None
    /\ LET r == Revolve(StagePatch(wl.stage), args.angle_sweep) IN
        /\ curves' = r.curves /\ loops' = r.loops /\ surfs' = r.surfs /\ vols' = r.vols /\ swept' = r.swept
        /\ calls' = Append(calls, r.call)
        /\ wl' = [wl EXCEPT !.surface_loop = StagePatch(wl.stage), !.surface_type = StageType(wl.stage),
                            !.apply_transfinite = ApplyTransfiniteArg(wl.stage),
                            !.out_plus = r.out, !.vol_plus = FirstVolume(r.out)]
    /\ pc' = "rev_minus"
    /\ UNCHANGED <<prog, raised, args, pts, topo, dl>>

RevolveNegative ==
    /\ prog = "wedge" /\ pc = "rev_minus"
    /\ LET r == Revolve(wl.surface_loop, NegativeAngle(args.angle_sweep)) IN
        /\ curves' = r.curves /\ loops' = r.loops /\ surfs' = r.surfs /\ vols' = r.vols /\ swept' = r.swept
        /\ calls' = Append(calls, r.call)
        /\ wl' = [wl EXCEPT !.out_minus = r.out, !.vol_minus = FirstVolume(r.out), !.side = "plus"]
    /\ pc' = IF wl.apply_transfinite THEN "apply" ELSE "return"
    /\ UNCHANGED <<prog, raised, args, pts, topo, dl>>

\* the synchronize that opens _apply_transfinite_sweep
NoSynchronize == <<>>

SweepSynchronize == <<Call("synchronize", 0, 0, "", <<>>)>>

\* _apply_transfinite_sweep up to its loop: the new surface tags, synchronize
ApplySync ==
    /\ prog = "wedge" /\ pc = "apply"
    /\ LET out == IF wl.side = "plus" THEN wl.out_plus ELSE wl.out_minus
           new_surfs == SelectSeq(out, LAMBDA e : e[1] = 2)
       IN wl' = [wl EXCEPT !.new_surfs = [k \in 1..Len(new_surfs) |-> new_surfs[k][2]], !.j = 1]
    /\ calls' = calls \o SweepSynchronize
    /\ pc' = "classify"
    /\ UNCHANGED <<prog, raised, args, kernelGeo, topo, dl>>

\* "Right" for inner wedges; for outer ones from the bounding box
Arrangement(surface_type, bbox) ==
    IF surface_type = "inner" THEN "Right"
    ELSE IF Abs(bbox[3] + bbox[6]) < 1 /\ bbox[1] >= 0 /\ bbox[4] >= 0 THEN "Right" ELSE "Left"

\* the boundary walk of one surface: the edge lists, the corner list, the queries made
BoundaryWalk(s_tag) ==
    LET bnd == loops[surfs[s_tag]]
        typ(k) == curves[Abs(bnd[k])].type
        endpts(k) == curves[Abs(bnd[k])].ends
    IN [radial_curves |-> SelectSeq(bnd, LAMBDA t : curves[Abs(t)].type = "Line"),
        curved_curves |-> SelectSeq(bnd, LAMBDA t : curves[Abs(t)].type = "Circle"),
        corner_points |-> Dedup(Flatten([k \in 1..Len(bnd) |-> IF Len(endpts(k)) = 2 THEN endpts(k) ELSE <<>>])),
        calls |-> <<Call("getBoundary", 2, s_tag, "", <<>>)>>
                  \o Flatten([k \in 1..Len(bnd) |-> <<Call("getType", 1, Abs(bnd[k]), "", <<>>), Call("getBoundary", 1, bnd[k], "", <<>>)>>])]

\* the IDs n, n + 1, ... below RangeStop that are absent from the corner list
RECURSIVE MissingFrom(_, _)
MissingFrom(n, corner_points) ==
    IF n >= RangeStop THEN <<>>
    ELSE (IF n \in Range(corner_points) THEN <<>> ELSE <<n>>) \o MissingFrom(n + 1, corner_points)

\* find_missing_numbers(corner_points, np.arange(2, 21))[1]: the IDs of the
\* range absent from the corner list, ascending
find_missing_numbers(corner_points) == MissingFrom(RangeStart, corner_points)

\* a classifier that refuses a corner list of neither 3 nor 4 entries
SurfaceDeclarationStrict(s_tag, use_arr, corner_points) ==
    IF Len(corner_points) \notin {3, 4}
    THEN [raised |-> "ValueError", corner_points |-> corner_points, calls |-> <<>>]
    ELSE IF Len(corner_points) = 3 /\ CenterTag \in Range(corner_points)
    THEN LET rot == Rotate(corner_points, Index(corner_points, CenterTag))
         IN [raised |-> "none", corner_points |-> rot, calls |-> <<Call("setTransfiniteSurface", 2, s_tag, use_arr, rot)>>]
    ELSE IF Len(corner_points) = 3
    THEN [raised |-> "ValueError", corner_points |-> corner_points, calls |-> <<>>]
    ELSE [raised |-> "none", corner_points |-> corner_points, calls |-> <<Call("setTransfiniteSurface", 2, s_tag, use_arr, <<>>)>>]

\* the surface declaration: the exception raised ("none" if none), the corner
\* list after it, the kernel calls made
SurfaceDeclaration(s_tag, use_arr, corner_points) ==
    IF Len(corner_points) = 3 THEN
        IF CenterTag \in Range(corner_points) THEN
            LET rot == Rotate(corner_points, Index(corner_points, CenterTag))
            IN [raised |-> "none", corner_points |-> rot, calls |-> <<Call("setTransfiniteSurface", 2, s_tag, use_arr, rot)>>]
        ELSE
            LET missing == find_missing_numbers(corner_points) IN
            IF missing = <<>> THEN [raised |-> "IndexError", corner_points |-> corner_points, calls |-> <<>>]
            ELSE IF Index(corner_points, missing[1]) = 0 THEN [raised |-> "ValueError", corner_points |-> corner_points, calls |-> <<>>]
            ELSE LET rot == Rotate(corner_points, Index(corner_points, missing[1]))
                 IN [raised |-> "none", corner_points |-> rot, calls |-> <<Call("setTransfiniteSurface", 2, s_tag, "default", rot)>>]
    ELSE [raised |-> "none", corner_points |-> corner_points, calls |-> <<Call("setTransfiniteSurface", 2, s_tag, use_arr, <<>>)>>]

\* one pass of the loop of _apply_transfinite_sweep
ClassifySurface ==
    /\ prog = "wedge" /\ pc = "classify" /\ wl.j <= Len(wl.new_surfs)
    /\ LET s_tag == wl.new_surfs[wl.j]
           use_arr == Arrangement(wl.surface_type, topo.bbox)
           box == IF wl.surface_type = "inner" THEN <<>> ELSE <<Call("getBoundingBox", 2, s_tag, "", <<>>)>>
           w == BoundaryWalk(s_tag)
           d == SurfaceDeclaration(s_tag, use_arr, w.corner_points)
       IN
        /\ calls' = calls \o box \o w.calls
                          \o set_transfinite(w.radial_curves, w.curved_curves, <<<<s_tag, use_arr>>>>,
                                             args.n_div_radial, args.n_div_curved, args.bumpcoef)
                          \o d.calls
        /\ wl' = [wl EXCEPT !.s_tag = s_tag, !.use_arr = use_arr, !.corner_points = d.corner_points,
                            !.j = IF d.raised = "none" THEN @ + 1 ELSE @]
        /\ raised' = d.raised
        /\ pc' = IF d.raised = "none" THEN "classify" ELSE "raised"
    /\ UNCHANGED <<prog, args, kernelGeo, topo, dl>>

\* the loop is over: on to the negative sweep's surfaces, or back to revolve_surface
EndApply ==
    /\ prog = "wedge" /\ pc = "classify" /\ wl.j > Len(wl.new_surfs)
    /\ IF wl.side = "plus"
       THEN wl' = [wl EXCEPT !.side = "minus"] /\ pc' = "apply"
       ELSE wl' = wl /\ pc' = "return"
    /\ UNCHANGED <<prog, raised, args, kernelGeo, calls, topo, dl>>

\* revolve_surface returns; create_wedge_volumes keeps the pair and, after the
\* first three calls, synchronizes
ReturnRevolve ==
    /\ prog = "wedge" /\ pc = "return"
    /\ wl' = [wl EXCEPT !.stage = IF @ < 4 THEN @ + 1 ELSE @,
                        !.vol_i_plus = IF wl.stage = 1 THEN wl.vol_plus ELSE @,
                        !.vol_i_minus = IF wl.stage = 1 THEN wl.vol_minus ELSE @,
                        !.vol_o_plus = IF wl.stage = 2 THEN wl.vol_plus ELSE @,
                        !.vol_o_minus = IF wl.stage = 2 THEN wl.vol_minus ELSE @,
                        !.vol_ib_plus = IF wl.stage = 3 THEN wl.vol_plus ELSE @,
                        !.vol_ib_minus = IF wl.stage = 3 THEN wl.vol_minus ELSE @,
                        !.vol_ob_plus = IF wl.stage = 4 THEN wl.vol_plus ELSE @,
                        !.vol_ob_minus = IF wl.stage = 4 THEN wl.vol_minus ELSE @]
    /\ calls' = IF wl.stage < 4 THEN Append(calls, Call("synchronize", 0, 0, "", <<>>)) ELSE calls
    /\ pc' = IF wl.stage < 4 THEN "stage" ELSE "final"
    /\ UNCHANGED <<prog, raised, args, kernelGeo, topo, dl>>

\* a bulk handle that is None: both volumes None, no kernel call
SkipAbsentBulk ==
    /\ prog = "wedge" /\ pc = "stage" /\ StagePatch(wl.stage) = None
    /\ wl' = [wl EXCEPT !.stage = IF @ < 4 THEN @ + 1 ELSE @,
                        !.vol_ib_plus = IF wl.stage = 3 THEN None ELSE @,
                        !.vol_ib_minus = IF wl.stage = 3 THEN None ELSE @,
                        !.vol_ob_plus = IF wl.stage = 4 THEN None ELSE @,
                        !.vol_ob_minus = IF wl.stage = 4 THEN None ELSE @]
    /\ pc' = IF wl.stage < 4 THEN "stage" ELSE "final"
    /\ UNCHANGED <<prog, raised, args, kernelGeo, calls, topo, dl>>

\* the last synchronize and the two result lists
WedgeReturn ==
    /\ prog = "wedge" /\ pc = "final"
    /\ calls' = Append(calls, Call("synchronize", 0, 0, "", <<>>))
    /\ wl' = [wl EXCEPT !.inner_vols = <<wl.vol_i_plus, wl.vol_i_minus, wl.vol_ib_plus, wl.vol_ib_minus>>,
                        !.outer_vols = <<wl.vol_o_plus, wl.vol_o_minus, wl.vol_ob_plus, wl.vol_ob_minus>>]
    /\ pc' = "done"
    /\ UNCHANGED <<prog, raised, args, kernelGeo, topo, dl>>

NextWedge ==
    \/ RevolvePositive
    \/ RevolveNegative
    \/ ApplySync
    \/ ClassifySurface
    \/ EndApply
    \/ ReturnRevolve
    \/ SkipAbsentBulk
    \/ WedgeReturn

SpecWedge == InitWedge /\ [][NextWedge]_vars

\* ====================================================== disk claims
GeometryOps == {"addPoint", "addLine", "addCircleArc", "addCurveLoop", "addPlaneSurface",
                "setTransfiniteCurve", "setTransfiniteSurface", "addPhysicalGroup", "setPhysicalName", "revolve"}

ValidDiskArgs == args.rInner - args.a >= 0 /\ args.rInner + args.a <= args.rOuter

\* the loop (signed curve tags) bounding plane surface s
LoopOf(s) == loops[surfs[s]]

SurfPoints(s) == UNION {Range(curves[Abs(LoopOf(s)[j])].ends) : j \in 1..Len(LoopOf(s))}

\* surface s lies in sector k: all its corners are points of that sector or the center
InSector(s, k) == SurfPoints(s) \subseteq (Range(dl.sectors[k].p) \cup {dl.p_center})

\* tags of the arcs joining points x and y
ArcsBetween(x, y) == {t \in 1..Len(curves) : curves[t].type = "Circle" /\ Range(curves[t].ends) = {x, y}}

\* positions of all loops that hold the signed curve tag c
RefsTo(c) == {<<l, j>> : l \in 1..Len(loops), j \in 1..10} \cap {x \in (1..Len(loops)) \X (1..10) : x[2] <= Len(loops[x[1]]) /\ loops[x[1]][x[2]] = c}

\* surface s has, with sign sg, an arc joining x and y on its loop
HasArc(s, x, y, sg) == \E j \in 1..Len(LoopOf(s)) : sg * LoopOf(s)[j] > 0 /\ Abs(LoopOf(s)[j]) \in ArcsBetween(x, y)

IsInnerBand(s, k) == InSector(s, k) /\ HasArc(s, dl.sectors[k].p[3], dl.sectors[k].p[4], 1)

IsOuterBand(s, k) == InSector(s, k) /\ HasArc(s, dl.sectors[k].p[3], dl.sectors[k].p[4], -1)

IsInnerBulk(s, k) == InSector(s, k) /\ HasArc(s, dl.sectors[k].p[1], dl.sectors[k].p[2], -1)

IsOuterBulk(s, k) == InSector(s, k) /\ HasArc(s, dl.sectors[k].p[7], dl.sectors[k].p[8], 1)

\* the surfaces of the physical group named nm, <<>> before it is made
GroupNamed(nm) ==
    LET named == {k \in 1..Len(calls) : calls[k].op = "setPhysicalName" /\ calls[k].arr = nm}
        made == {k \in 1..Len(calls) : calls[k].op = "addPhysicalGroup" /\ \E n \in named : calls[n].tag = calls[k].tag}
    IN IF made = {} THEN <<>> ELSE calls[CHOOSE k \in made : TRUE].list

\* sector k has been built up to and including its outer band
OuterBandBuilt(k) == k < Len(dl.sectors) \/ pc \notin {"inner", "outer_band"}

\* C1: for every n_sectors >= 1 passed, exactly n_sectors sectors are built,
\* sector i spanning [2*pi*i/N, 2*pi*(i+1)/N) with N = n_sectors.
C1_SectorsAsRequested ==
    (prog = "disk" /\ pc = "done") =>
        /\ Len(dl.sectors) = args.n_sectors
        /\ \A k \in 1..Len(dl.sectors) :
              /\ dl.sectors[k].theta0 = k - 1
              /\ dl.sectors[k].theta1 = k
              /\ dl.sectors[k].den = args.n_sectors

\* C2: every valid input, rInner = a included, runs every sector through the
\* structured-constraint assignment and reaches the final synchronize without
\* raising; with rInner = a a sector has no inner-bulk patch and its inner band
\* is the 3-edge pie slice.
C2_ValidInputCompletes ==
    (prog = "disk" /\ ValidDiskArgs) =>
        /\ raised = "none"
        /\ (args.rInner = args.a /\ pc \in {"outer_band", "outer_bulk", "transfinite"}) =>
              LET k == Len(dl.sectors)
                  mine == {s \in Range(dl.inner_surfaces) : InSector(s, k)}
              IN /\ mine = {dl.surf_ib}
                 /\ Len(LoopOf(dl.surf_ib)) = 3
                 /\ curves[LoopOf(dl.surf_ib)[1]] = Line(dl.p_center, dl.sectors[k].p[3])
                 /\ curves[LoopOf(dl.surf_ib)[2]] = CircleArc(dl.sectors[k].p[3], dl.p_center, dl.sectors[k].p[4])
                 /\ curves[LoopOf(dl.surf_ib)[3]] = Line(dl.sectors[k].p[4], dl.p_center)

\* C3: an input with rInner - a < 0 or rInner + a > rOuter ends in ValueError,
\* and no point, line, arc, loop, surface, transfinite or physical-group call
\* has reached the kernel.
C3_InvalidRaisesBeforeGeometry ==
    (prog = "disk" /\ (args.rInner - args.a < 0 \/ args.rInner + args.a > args.rOuter)) =>
        /\ pc \in {"start", "raised"}
        /\ pc = "raised" => raised = "ValueError"
        /\ \A k \in 1..Len(calls) : calls[k].op \notin GeometryOps
        /\ pts = <<>> /\ curves = <<>> /\ loops = <<>> /\ surfs = <<>>

C3_Witness ==
    /\ prog = "disk" /\ pc = "raised" /\ raised = "ValueError"
    /\ args.rInner - args.a >= 0 /\ args.rInner + args.a > args.rOuter

\* C4: in every sector the interface arc (radius rInner, mid0 to mid1) is made
\* by one add-arc call and is on exactly two loops: once, positive, on the
\* inner-band loop and once, negative, on the outer-band loop.
C4_InterfaceArcShared ==
    prog = "disk" =>
        \A k \in 1..Len(dl.sectors) : OuterBandBuilt(k) =>
            LET mid0 == dl.sectors[k].p[3]
                mid1 == dl.sectors[k].p[4]
                made == {n \in 1..Len(calls) : calls[n].op = "addCircleArc" /\ {calls[n].list[1], calls[n].list[3]} = {mid0, mid1}}
            IN /\ Cardinality(made) = 1
               /\ Cardinality(ArcsBetween(mid0, mid1)) = 1
               /\ \A t \in ArcsBetween(mid0, mid1) :
                     /\ Cardinality(RefsTo(t)) = 1
                     /\ Cardinality(RefsTo(-t)) = 1
                     /\ \A x \in RefsTo(t) : \E s \in Range(dl.inner_surfaces) : surfs[s] = x[1]
                     /\ \A x \in RefsTo(-t) : \E s \in Range(dl.outer_surfaces) : surfs[s] = x[1]

C4_Witness ==
    /\ prog = "disk" /\ pc = "done" /\ Len(dl.sectors) = 4
    /\ Cardinality(ArcsBetween(dl.sectors[4].p[3], dl.sectors[4].p[4])) = 1

\* C5: with rInner - a > 0, on completion each sector has put one inner-bulk and
\* one inner-band surface in the inner material group, and one outer-band
\* surface, plus one outer-bulk surface exactly when rInner + a < rOuter, in the
\* outer material group; with 4 sectors and rInner + a < rOuter each group has
\* 8 surfaces; no surface is in both groups.
C5_GroupMembership ==
    (prog = "disk" /\ pc = "done" /\ args.rInner - args.a > 0) =>
        LET inner == GroupNamed("InnerMaterial")
            outer == GroupNamed("OuterMaterial")
            nbulk == IF args.rInner + args.a < args.rOuter THEN 1 ELSE 0
        IN /\ \A k \in 1..Len(dl.sectors) :
                 /\ Cardinality({s \in Range(inner) : IsInnerBulk(s, k)}) = 1
                 /\ Cardinality({s \in Range(inner) : IsInnerBand(s, k)}) = 1
                 /\ Cardinality({s \in Range(inner) : InSector(s, k)}) = 2
                 /\ Cardinality({s \in Range(outer) : IsOuterBand(s, k)}) = 1
                 /\ Cardinality({s \in Range(outer) : IsOuterBulk(s, k)}) = nbulk
                 /\ Cardinality({s \in Range(outer) : InSector(s, k)}) = 1 + nbulk
           /\ Cardinality(Range(inner)) = Len(inner)
           /\ Cardinality(Range(outer)) = Len(outer)
           /\ Range(inner) \cap Range(outer) = {}
           /\ (Len(dl.sectors) = 4 /\ nbulk = 1) => (Len(inner) = 8 /\ Len(outer) = 8)
           /\ Len(inner) = 2 * Len(dl.sectors)
           /\ Len(outer) = (1 + nbulk) * Len(dl.sectors)

C5_Witness ==
    /\ prog = "disk" /\ pc = "done" /\ args.a > 0 /\ args.rInner - args.a > 0
    /\ args.rInner + args.a < args.rOuter
    /\ Len(GroupNamed("InnerMaterial")) = 8 /\ Len(GroupNamed("OuterMaterial")) = 8

\* ===================================================== wedge claims
CreatingOps == {"addPoint", "addLine", "addCircleArc", "addCurveLoop", "addPlaneSurface", "revolve"}

\* indices of the revolve calls made on patch
RevolveCallsOn(patch) == {k \in 1..Len(calls) : calls[k].op = "revolve" /\ calls[k].tag = patch}

\* tags of the entities of dimension dim made by call k
SweptBy(k, dim) == {e.tag : e \in {x \in swept : x.call = k /\ x.dim = dim}}

\* surfaces made by sweeping one of the patches
SweptFrom(patches) == {e.tag : e \in {x \in swept : x.dim = 2 /\ calls[x.call].tag \in patches}}

BandSurfaces == SweptFrom({args.inner_surf, args.outer_surf})

BulkSurfaces == SweptFrom({args.inner_bulk_surf, args.outer_bulk_surf} \ {None})

\* the pair of volumes returned for the k-th patch (inner band, outer band, inner bulk, outer bulk)
ReturnedPair(k) ==
    CASE k = 1 -> SubSeq(wl.inner_vols, 1, 2)
      [] k = 2 -> SubSeq(wl.outer_vols, 1, 2)
      [] k = 3 -> SubSeq(wl.inner_vols, 3, 4)
      [] OTHER -> SubSeq(wl.outer_vols, 3, 4)

GivenPatches == <<args.inner_surf, args.outer_surf, args.inner_bulk_surf, args.outer_bulk_surf>>

\* surfaces whose boundary the classifier has walked
Classified == {calls[k].tag : k \in {n \in 1..Len(calls) : calls[n].op = "getBoundary" /\ calls[n].dim = 2}}

\* the deduplicated corner list of surface s, endpoints in first-seen order
CornerList(s) == BoundaryWalk(s).corner_points

\* the classifier raised while handling surface s
FailedAt(s) == raised # "none" /\ wl.s_tag = s

\* indices of the structured-surface declarations of surface s
DeclarationsOf(s) == {k \in 1..Len(calls) : calls[k].op = "setTransfiniteSurface" /\ calls[k].tag = s}

\* C6: each patch given gets exactly two revolve calls, one with +angle_sweep and
\* one with -angle_sweep, whose volumes are returned; an absent bulk patch gets
\* no revolve call and None for both volumes, and nothing is raised.
C6_SweepPairs ==
    (prog = "wedge" /\ pc = "done") =>
        /\ raised = "none"
        /\ \A k \in 1..4 :
            IF GivenPatches[k] # None
            THEN \E kp, km \in RevolveCallsOn(GivenPatches[k]) :
                    /\ kp # km
                    /\ RevolveCallsOn(GivenPatches[k]) = {kp, km}
                    /\ calls[kp].list = <<args.angle_sweep>>
                    /\ calls[km].list = <<-args.angle_sweep>>
                    /\ SweptBy(kp, 3) = {ReturnedPair(k)[1]}
                    /\ SweptBy(km, 3) = {ReturnedPair(k)[2]}
            ELSE /\ RevolveCallsOn(GivenPatches[k]) = {}
                 /\ ReturnedPair(k) = <<None, None>>
        /\ Cardinality({n \in 1..Len(calls) : calls[n].op = "revolve"}) = 2 * Cardinality({k \in 1..4 : GivenPatches[k] # None})

C6_Witness ==
    /\ prog = "wedge" /\ pc = "done"
    /\ args.inner_bulk_surf = None /\ args.outer_bulk_surf # None
    /\ ReturnedPair(3) = <<None, None>> /\ ReturnedPair(4)[1] # None /\ ReturnedPair(4)[2] # None
    /\ ReturnedPair(4)[1] # ReturnedPair(4)[2]

\* C7: on return, every surface a band sweep reported has a structured-surface
\* declaration; no surface of a bulk sweep has one, nor a structured-edge
\* declaration on any of its edges.
C7_BandStructuredBulkNot ==
    (prog = "wedge" /\ pc = "done") =>
        /\ \A s \in BandSurfaces : DeclarationsOf(s) # {}
        /\ \A s \in BulkSurfaces :
            /\ DeclarationsOf(s) = {}
            /\ \A k \in 1..Len(calls) : calls[k].op = "setTransfiniteCurve" => \A j \in 1..Len(LoopOf(s)) : Abs(LoopOf(s)[j]) # calls[k].tag

C7_Witness ==
    /\ prog = "wedge" /\ pc = "done"
    /\ Cardinality(BandSurfaces) >= 8 /\ Cardinality(BulkSurfaces) >= 8
    /\ \A s \in BandSurfaces : DeclarationsOf(s) # {}

\* C8 (as stated): a surface to be structured whose corner list has neither 3
\* nor 4 entries makes the classifier fail instead of declaring it structured.
C8_AmbiguousCornersFatal ==
    prog = "wedge" =>
        \A s \in Classified : Len(CornerList(s)) \notin {3, 4} => (FailedAt(s) /\ DeclarationsOf(s) = {})

\* C8 (amended): a surface to be structured whose corner list has neither 3 nor
\* 4 entries does not make the classifier fail: the surface is declared
\* structured with an arrangement label and no corner order.
C8_AmbiguousCornersDeclared ==
    prog = "wedge" =>
        \A s \in Classified : Len(CornerList(s)) \notin {3, 4} =>
            /\ ~FailedAt(s)
            /\ DeclarationsOf(s) # {}
            /\ \A k \in DeclarationsOf(s) : calls[k].list = <<>> /\ calls[k].arr \in {"Right", "Left"}

C8_Witness ==
    /\ prog = "wedge" /\ pc = "done"
    /\ \E s \in Classified : Len(CornerList(s)) = 5 /\ DeclarationsOf(s) # {}
    /\ \E s \in Classified : Len(CornerList(s)) = 2 /\ DeclarationsOf(s) # {}

\* C9: a swept surface whose corner list has exactly 3 entries is declared
\* structured with a rotation of that list: the center point (handle 1) first
\* when it is a corner, otherwise the first ID of 2..20 absent from the corners.
C9_ThreeCornersResolved ==
    prog = "wedge" =>
        \A s \in Classified : Len(CornerList(s)) = 3 =>
            /\ ~FailedAt(s)
            /\ \E k \in DeclarationsOf(s) :
                /\ \E i \in 1..3 : calls[k].list = Rotate(CornerList(s), i)
                /\ calls[k].list[1] = IF CenterTag \in Range(CornerList(s)) THEN CenterTag
                                      ELSE CHOOSE n \in RangeStart..(RangeStop - 1) :
                                             n \notin Range(CornerList(s)) /\ \A m \in RangeStart..(n - 1) : m \in Range(CornerList(s))

\* C10: every boundary or bounding-box query on a swept entity comes after a
\* synchronize that follows the revolve which made the entity, with no
\* entity-creating call between that synchronize and the query.
C10_ProduceSynchronizeQuery ==
    prog = "wedge" =>
        \A q \in 1..Len(calls) : calls[q].op \in {"getBoundary", "getBoundingBox"} =>
            \A e \in swept : (e.dim = calls[q].dim /\ e.tag = Abs(calls[q].tag)) =>
                \E sy \in (e.call + 1)..(q - 1) :
                    /\ calls[sy].op = "synchronize"
                    /\ \A m \in (sy + 1)..(q - 1) : calls[m].op \notin CreatingOps

C10_Witness ==
    /\ prog = "wedge" /\ pc = "done"
    /\ \E q \in 1..Len(calls) : \E e \in swept :
        /\ calls[q].op = "getBoundingBox" /\ e.dim = 2 /\ e.tag = calls[q].tag
        /\ calls[e.call].list = <<-args.angle_sweep>>
    /\ \E q \in 1..Len(calls) : \E e \in swept :
        /\ calls[q].op = "getBoundary" /\ e.dim = 1 /\ e.tag = Abs(calls[q].tag)

====
